---- MODULE Spec2Model ----
(***************************************************************************)
(* ACC_Telemetry: the shared-memory attach/decode engine                    *)
(* (acc_telemetry/core/shared_memory.py) and the polling / caching /        *)
(* reconnect session built on it (acc_telemetry/core/telemetry.py).         *)
(*                                                                          *)
(* Times are in milliseconds.  One caller thread drives the public methods  *)
(* of one ACCTelemetry session; connect() and get_telemetry() each start a  *)
(* daemon worker thread and join it with a timeout, so a worker can outlive *)
(* the call that started it.                                                *)
(***************************************************************************)
EXTENDS Integers, Sequences, FiniteSets, TLC

VARIABLES
    asm,                   \* ACCTelemetry.asm: 0 is None, else an accSharedMemory object
    connected,             \* ACCTelemetry._connected
    last_data,             \* ACCTelemetry._last_data
    last_read_time,        \* ACCTelemetry._last_read_time
    last_connect_attempt,  \* ACCTelemetry._last_connect_attempt
    objs,                  \* accSharedMemory objects: which of the three handles each holds
    workers,               \* the worker threads started by connect() / get_telemetry()
    pc,                    \* where the caller thread is
    call,                  \* the public call in progress on the caller thread
    now,                   \* time.time()
    present,               \* how many of the producer's segments exist (in attach order)
    shm,                   \* the contents of the three segments (decoders on their own)
    lastOp,                \* the last completed public call and what it gave back
    lastRet,               \* what the last completed read_data() call gave back
    touchAt,               \* when read_data() last started a real read or a connect
    ncalls,                \* public calls made so far
    decoded                \* result of the last direct decode of a segment

vars == <<asm, connected, last_data, last_read_time, last_connect_attempt, objs,
          workers, pc, call, now, present, shm, lastOp, lastRet, touchAt, ncalls, decoded>>

hist == <<lastRet, touchAt>>

sessionVars == <<asm, connected, last_data, last_read_time, last_connect_attempt, objs>>

-----------------------------------------------------------------------------
(* Bounds of the model                                                      *)

MaxCalls == 4        \* public calls in one behaviour
MaxWorkers == 2      \* worker threads alive at once
MaxEpoch == 1        \* reconnect windows the clock may pass
MaxStep == 2         \* clock readings inside one window
MaxPokes == 2        \* cells of the segments that differ from the all-zero buffer
StrLen == 3          \* bytes of a fixed-length string field

(* Program constants                                                        *)

MinUpdateInterval == 50
ConnectBackoff == 5000
ConnectJoinTimeout == 500
ReadJoinTimeout == 100

StepLen == MinUpdateInterval \div 2   \* spacing of clock readings inside a window
EpochLen == ConnectBackoff        \* spacing of the windows
StartTime == ConnectBackoff + StepLen   \* time.time() is far beyond 5 s at construction

None == [none |-> TRUE]

Segments == <<"physics", "graphics", "static">>

-----------------------------------------------------------------------------
(* Enumerations of shared_memory.py: the defined integer codes              *)

ACC_STATUS == 0..3
ACC_SESSION_TYPE == (-1)..8
ACC_FLAG_TYPE == 0..8
ACC_PENALTY_TYPE == (-1)..22
ACC_TRACK_GRIP_STATUS == 0..6
ACC_RAIN_INTENSITY == 0..5

UnknownValue == -1      \* ACC_PENALTY_TYPE.UnknownValue

\* Result of an expression that may raise
Ok(v) == [ok |-> TRUE, val |-> v]
Raise(e) == [ok |-> FALSE, exc |-> e]

\* Enum(value): the member with that code, or ValueError
EnumCall(codes, raw) ==
    IF raw \in codes THEN Ok([variant |-> raw]) ELSE Raise("ValueError")

\* flag / penalty of read_graphics_map: try ACC_PENALTY_TYPE(v) except ValueError
PenaltyDecode(raw) ==
    IF EnumCall(ACC_PENALTY_TYPE, raw).ok
        THEN EnumCall(ACC_PENALTY_TYPE, raw)
        ELSE Ok([variant |-> UnknownValue])

-----------------------------------------------------------------------------
(* Fixed-length strings                                                     *)

NUL == 0

\* bytes.decode("utf-8") accepts the sequence (1- and 2-byte forms)
RECURSIVE Utf8Valid(_)
Utf8Valid(bs) ==
    IF bs = <<>> THEN TRUE
    ELSE IF Head(bs) < 128 THEN Utf8Valid(Tail(bs))
    ELSE IF Head(bs) \in 194..223 /\ Len(bs) >= 2 /\ bs[2] \in 128..191
        THEN Utf8Valid(Tail(Tail(bs)))
    ELSE FALSE

RECURSIVE UpToNul(_)
UpToNul(bs) ==
    IF bs = <<>> \/ Head(bs) = NUL THEN <<>>
    ELSE <<Head(bs)>> \o UpToNul(Tail(bs))

\* the code points bytes.decode("utf-8") yields for an accepted sequence
RECURSIVE Utf8Decode(_)
Utf8Decode(bs) ==
    IF bs = <<>> THEN <<>>
    ELSE IF Head(bs) < 128 THEN <<Head(bs)>> \o Utf8Decode(Tail(bs))
    ELSE <<(Head(bs) - 192) * 64 + (bs[2] - 128)>> \o Utf8Decode(Tail(Tail(bs)))

\* accSM.unpack_string on the max_len bytes of the field: the whole field is
\* decoded first, the text is cut at its first "\x00" afterwards
unpack_string(bs) ==
    IF Utf8Valid(bs) THEN Ok(UpToNul(Utf8Decode(bs))) ELSE Raise("UnicodeDecodeError")

\* struct.unpack(">i", bytes): the bytes taken most significant first
unpack_value_big_endian(bs, fmt) ==
    (IF bs[1] >= 128 THEN bs[1] - 256 ELSE bs[1]) * 16777216
        + bs[2] * 65536 + bs[3] * 256 + bs[4]

\* accSM.unpack_value(offset, "i") on the struct.calcsize("i") = 4 bytes at the
\* offset: native byte order, which is little-endian on every host that has
\* the named mappings; the top bit of the last byte is the sign
unpack_value(bs, fmt) ==
    (IF bs[4] >= 128 THEN bs[4] - 256 ELSE bs[4]) * 16777216
        + bs[3] * 65536 + bs[2] * 256 + bs[1]

-----------------------------------------------------------------------------
(* Segment contents.  A segment is held as the raw values of the fields     *)
(* the decoders below read: raw int32 codes, the bytes of string fields,    *)
(* and the four bytes of the gear field.                                    *)

ZeroStr == [i \in 1..StrLen |-> NUL]

\* the four bytes of an int32 field the model holds byte by byte
ZeroWord == <<0, 0, 0, 0>>

ZeroPhysics == [packed_id |-> 0, gear |-> ZeroWord]

ZeroGraphics ==
    [packed_id |-> 0, status |-> 0, session_type |-> 0, current_time_str |-> ZeroStr,
     current_time |-> 0, tyre_compound |-> ZeroStr, flag |-> 0, penalty |-> 0,
     track_grip_status |-> 0, rain_intensity |-> 0,
     rain_intensity_in_10min |-> 0, rain_intensity_in_30min |-> 0]

ZeroStatic == [sm_version |-> ZeroStr, car_model |-> ZeroStr, max_rpm |-> 0]

ZeroShm == [physics |-> ZeroPhysics, graphics |-> ZeroGraphics, static |-> ZeroStatic]

\* The enum-backed fields of the graphics segment and their enumerations
EnumFields == {"status", "session_type", "flag", "penalty", "track_grip_status",
               "rain_intensity", "rain_intensity_in_10min", "rain_intensity_in_30min"}

EnumCodes(f) ==
    CASE f = "status" -> ACC_STATUS
      [] f = "session_type" -> ACC_SESSION_TYPE
      [] f = "flag" -> ACC_FLAG_TYPE
      [] f = "penalty" -> ACC_PENALTY_TYPE
      [] f = "track_grip_status" -> ACC_TRACK_GRIP_STATUS
      [] OTHER -> ACC_RAIN_INTENSITY

StringFields(seg) ==
    CASE seg = "graphics" -> {"current_time_str", "tyre_compound"}
      [] seg = "static" -> {"sm_version", "car_model"}
      [] OTHER -> {}

\* First failing step of a decoder body, in program order
FirstFailure(steps) ==
    LET bad == {i \in DOMAIN steps : ~steps[i].ok}
    IN CHOOSE i \in bad : \A j \in bad : i <= j

\* read_physic_map: ints and floats only
read_physic_map(p) == Ok([packed_id |-> p.packed_id, gear |-> unpack_value(p.gear, "i")])

\* read_graphics_map, in the order of its statements
read_graphics_map(g) ==
    LET status == EnumCall(ACC_STATUS, g.status)
        session_type == EnumCall(ACC_SESSION_TYPE, g.session_type)
        current_time_str == unpack_string(g.current_time_str)
        tyre_compound == unpack_string(g.tyre_compound)
        flag == EnumCall(ACC_FLAG_TYPE, g.flag)
        penalty == PenaltyDecode(g.penalty)
        track_grip_status == EnumCall(ACC_TRACK_GRIP_STATUS, g.track_grip_status)
        rain_intensity == EnumCall(ACC_RAIN_INTENSITY, g.rain_intensity)
        rain_intensity_in_10min == EnumCall(ACC_RAIN_INTENSITY, g.rain_intensity_in_10min)
        rain_intensity_in_30min == EnumCall(ACC_RAIN_INTENSITY, g.rain_intensity_in_30min)
        steps == <<status, session_type, current_time_str, tyre_compound, flag, penalty,
                   track_grip_status, rain_intensity, rain_intensity_in_10min,
                   rain_intensity_in_30min>>
    IN IF \A i \in DOMAIN steps : steps[i].ok
        THEN Ok([packed_id |-> g.packed_id,
                 status |-> status.val,
                 session_type |-> session_type.val,
                 current_time_str |-> current_time_str.val,
                 current_time |-> g.current_time,
                 tyre_compound |-> tyre_compound.val,
                 flag |-> flag.val,
                 penalty |-> penalty.val,
                 track_grip_status |-> track_grip_status.val,
                 rain_intensity |-> rain_intensity.val,
                 rain_intensity_in_10min |-> rain_intensity_in_10min.val,
                 rain_intensity_in_30min |-> rain_intensity_in_30min.val])
        ELSE Raise(steps[FirstFailure(steps)].exc)

\* read_static_map, in the order of its statements
read_static_map(s) ==
    LET sm_version == unpack_string(s.sm_version)
        car_model == unpack_string(s.car_model)
        steps == <<sm_version, car_model>>
    IN IF \A i \in DOMAIN steps : steps[i].ok
        THEN Ok([sm_version |-> sm_version.val, car_model |-> car_model.val,
                 max_rpm |-> s.max_rpm])
        ELSE Raise(steps[FirstFailure(steps)].exc)

read_map(seg, c) ==
    CASE seg = "physics" -> read_physic_map(c)
      [] seg = "graphics" -> read_graphics_map(c)
      [] seg = "static" -> read_static_map(c)

-----------------------------------------------------------------------------
(* The session: objects, handles, workers                                   *)

ObjIds == 1..(MaxWorkers + 2)
WorkerIds == 1..MaxWorkers

NoHandles == [physics |-> FALSE, graphics |-> FALSE, static |-> FALSE]

SegIndex(seg) == CHOOSE i \in 1..3 : Segments[i] = seg

\* the named segment exists, so accSM(-1, size, tagname=...) succeeds
Exists(seg) == SegIndex(seg) <= present

Pc(do, seg) == [do |-> do, seg |-> seg]

IdleWorker ==
    [kind |-> "free", wpc |-> Pc("done", ""), joined |-> FALSE, obj |-> 0,
     tried |-> FALSE, whole |-> FALSE, result |-> None]

FreeSlots == {w \in WorkerIds : workers[w].kind = "free"}
Slot == CHOOSE w \in FreeSlots : \A v \in FreeSlots : w <= v

\* An accSharedMemory object is alive while self.asm or a running
\* read_shared_memory() frame refers to it; when the last reference goes the
\* object and its accSM (mmap) members are deallocated, which closes them.
Referenced(o, a, ws) == a = o \/ \E w \in WorkerIds : ws[w].obj = o
Collect(os, a, ws) ==
    [o \in ObjIds |-> IF Referenced(o, a, ws) THEN os[o] ELSE NoHandles]

NewObj == CHOOSE o \in ObjIds :
            /\ ~Referenced(o, asm, workers)
            /\ \A q \in ObjIds : ~Referenced(q, asm, workers) => o <= q

\* a close() that keeps the handles
asm_close_keeps_handles(os, o) == os

\* accSharedMemory.close
asm_close(os, o) == [os EXCEPT ![o] = NoHandles]

\* ACCTelemetry.is_connected
\* a connection test that looks at the object only
is_connected_by_object == asm # 0

is_connected == connected /\ asm # 0

\* `except Exception` clauses of the public methods
except_OSError(exc) == exc = "OSError"
connect_except(exc) == TRUE
get_telemetry_except(exc) == TRUE
close_except(exc) == TRUE

\* TelemetryData built by _read_telemetry
TelemetryData(t, physics, graphics) ==
    [timestamp |-> t, gear |-> physics.gear, lap_time |-> graphics.current_time]

-----------------------------------------------------------------------------
(* The clock                                                                *)

\* The clock readings of a behaviour: in each reconnect window a few readings
\* StepLen apart
Instants == {StartTime + e * EpochLen + j * StepLen : e \in 0..MaxEpoch, j \in 0..MaxStep}

\* first clock reading once a join of the given timeout has expired
After(timeout) ==
    CHOOSE t \in Instants : t >= now + timeout
                            /\ \A u \in Instants : u >= now + timeout => t <= u
CanExpire(timeout) == \E t \in Instants : t >= now + timeout

-----------------------------------------------------------------------------
(* Start and return of a public call on the caller thread                   *)

NoCall == [op |-> "none", w |-> 0, t |-> 0]

Called ==
    /\ pc = "idle"
    /\ ncalls < MaxCalls
    /\ ncalls' = ncalls + 1

\* What a completed public call leaves in lastOp.
\*   ret / ok: the value returned (connect: ok is the bool); raised: it raised
\*   at:     time.time() read by read_data (0 for the other calls)
\*   fresh:  read_data: "ok" / "fail" as get_telemetry() gave a sample or None,
\*           "none" when it was not called
\*   read:   the call started a real read (a worker calling read_shared_memory)
\*   conn:   read_data attempted connect()
\*   attach: that read called accSM() for a segment it did not hold
\*   whole:  the read of this call gave a sample, built while all three
\*           segments were held and from all three decoded
\*   quiet:  no worker thread has taken a step since the call returned
\*   prev:   op and fresh of the public call completed before this one
\*   asm_closed: accSharedMemory.close() calls the call made (close, disconnect)
\*   closes: close() calls completed in a row with nothing in between
Outcome(op, ret, ok, raised) ==
    [op |-> op, ret |-> ret, ok |-> ok, raised |-> raised, at |-> 0,
     fresh |-> "none", read |-> FALSE, conn |-> FALSE, attach |-> FALSE,
     whole |-> FALSE, quiet |-> TRUE,
     prev |-> IF op = "init" THEN [op |-> "none", fresh |-> "none"]
                            ELSE [op |-> lastOp.op, fresh |-> lastOp.fresh],
     asm_closed |-> IF op \in {"close", "disconnect"} /\ asm # 0 THEN 1 ELSE 0,
     closes |-> IF op # "close" THEN 0
                ELSE IF lastOp.op = "close" /\ lastOp.quiet THEN lastOp.closes + 1 ELSE 1]

Completes(o) ==
    /\ lastOp' = o
    /\ pc' = "idle"
    /\ call' = NoCall

Returns(op, ret, ok) ==
    /\ Completes(Outcome(op, ret, ok, FALSE))
    /\ UNCHANGED hist

Raises(op) ==
    /\ Completes(Outcome(op, None, FALSE, TRUE))
    /\ UNCHANGED hist

\* a worker thread takes a step
Disturbed == lastOp' = [lastOp EXCEPT !.quiet = FALSE]

\* read_data returns self._last_data (lines 172, 181, 182, 188)
ReadDataReturns(t, read, conn, attach, fresh, whole, ret) ==
    /\ Completes([Outcome("read_data", ret, TRUE, FALSE) EXCEPT
                    !.at = t, !.fresh = fresh, !.read = read, !.conn = conn,
                    !.attach = attach, !.whole = whole])
    /\ lastRet' = ret
    /\ touchAt' = IF read \/ conn THEN t ELSE touchAt

-----------------------------------------------------------------------------
(* Worker threads                                                           *)

\* read_shared_memory: three attaches in this order, then the decoders
NextPc(p) ==
    CASE p = Pc("attach", "physics") -> Pc("attach", "graphics")
      [] p = Pc("attach", "graphics") -> Pc("attach", "static")
      [] p = Pc("attach", "static") -> Pc("read", "")
      [] OTHER -> Pc("done", "")

\* the worker ends with result[0] = res; a worker nobody waits for is gone.
\*   tried: the worker called accSM() for a segment the object did not hold
\*   whole: the worker held all three segments and decoded all three
Finish(w, tried, whole, res) ==
    [workers EXCEPT ![w] =
        IF @.joined
            THEN [IdleWorker EXCEPT !.kind = workers[w].kind, !.joined = TRUE,
                                   !.tried = tried, !.whole = whole, !.result = res]
            ELSE IdleWorker]

\* _connect (telemetry.py:117-123): self.asm = accSharedMemory()
ConnectWorker(w) ==
    /\ workers[w].kind = "connect"
    /\ workers[w].wpc = Pc("run", "")
    /\ workers' = Finish(w, FALSE, FALSE, None)
    /\ asm' = NewObj
    /\ objs' = Collect([objs EXCEPT ![NewObj] = NoHandles], NewObj, workers')
    /\ Disturbed
    /\ UNCHANGED <<ncalls, connected, last_data, last_read_time, last_connect_attempt,
                   pc, call, now, present, shm, hist, decoded>>

\* a read_shared_memory that uses the handles it holds and attaches none
ReadWorkerAttachesNothing(w, seg) ==
    /\ workers[w].kind = "read"
    /\ workers[w].wpc = Pc("attach", seg)
    /\ LET o == IF seg = "physics" THEN asm ELSE workers[w].obj
           bound == [workers EXCEPT ![w].obj = o]
       IN IF objs[o][seg]
            THEN /\ workers' = [bound EXCEPT ![w].wpc = NextPc(@)]
                 /\ objs' = objs
            ELSE /\ workers' = Finish(w, TRUE, FALSE, None)
                 /\ objs' = Collect(objs, asm, workers')
    /\ Disturbed
    /\ UNCHANGED <<ncalls, asm, connected, last_data, last_read_time, last_connect_attempt,
                   pc, call, now, present, shm, hist, decoded>>

\* read_shared_memory (shared_memory.py:1610-1623): attach a segment not yet held
ReadWorkerAttach(w, seg) ==
    /\ workers[w].kind = "read"
    /\ workers[w].wpc = Pc("attach", seg)
    /\ LET o == IF seg = "physics" THEN asm ELSE workers[w].obj
           bound == [workers EXCEPT ![w].obj = o]
       IN IF objs[o][seg] \/ Exists(seg)
            THEN /\ workers' = [bound EXCEPT ![w].wpc = NextPc(@),
                                             ![w].tried = @ \/ ~objs[o][seg]]
                 /\ objs' = [objs EXCEPT ![o][seg] = TRUE]
            ELSE /\ workers' = Finish(w, TRUE, FALSE, None)
                 /\ objs' = Collect(objs, asm, workers')
    /\ Disturbed
    /\ UNCHANGED <<ncalls, asm, connected, last_data, last_read_time, last_connect_attempt,
                   pc, call, now, present, shm, hist, decoded>>

\* the decoders of read_shared_memory (shared_memory.py:1625-1629) on what
\* the three segments hold when they are read (p, g, s), then the
\* TelemetryData construction of _read_telemetry (telemetry.py:207-271)
read_shared_memory_without_static(o, p, g, s) ==
    LET physics == IF objs[o].physics THEN read_physic_map(p) ELSE Raise("AttributeError")
        graphics == IF objs[o].graphics THEN read_graphics_map(g) ELSE Raise("AttributeError")
        steps == <<physics, graphics>>
    IN IF \A i \in DOMAIN steps : steps[i].ok
         THEN Ok([Physics |-> physics.val, Graphics |-> graphics.val, Static |-> None])
         ELSE Raise(steps[FirstFailure(steps)].exc)
read_shared_memory(o, p, g, s) ==
    LET physics == IF objs[o].physics THEN read_physic_map(p) ELSE Raise("AttributeError")
        graphics == IF objs[o].graphics THEN read_graphics_map(g) ELSE Raise("AttributeError")
        static == IF objs[o].static THEN read_static_map(s) ELSE Raise("AttributeError")
        steps == <<physics, graphics, static>>
    IN IF \A i \in DOMAIN steps : steps[i].ok
         THEN Ok([Physics |-> physics.val, Graphics |-> graphics.val, Static |-> static.val])
         ELSE Raise(steps[FirstFailure(steps)].exc)

AllHandles == [physics |-> TRUE, graphics |-> TRUE, static |-> TRUE]

ReadWorkerRead(w, p, g, s) ==
    /\ workers[w].kind = "read"
    /\ workers[w].wpc = Pc("read", "")
    /\ LET sm == read_shared_memory(workers[w].obj, p, g, s)
           whole == /\ objs[workers[w].obj] = AllHandles
                    /\ read_physic_map(p).ok
                    /\ read_graphics_map(g).ok
                    /\ read_static_map(s).ok
       IN workers' = Finish(w, workers[w].tried, whole,
                            IF sm.ok THEN TelemetryData(now, sm.val.Physics, sm.val.Graphics)
                                     ELSE None)
    /\ objs' = Collect(objs, asm, workers')
    /\ Disturbed
    /\ UNCHANGED <<ncalls, asm, connected, last_data, last_read_time, last_connect_attempt,
                   pc, call, now, present, shm, hist, decoded>>

-----------------------------------------------------------------------------
(* Public methods of ACCTelemetry                                           *)

\* connect(), lines 131-142, and what read_data does with its result (180-182)
ConnectReturns(op, t, ok) ==
    /\ connected' = ok
    /\ IF op = "connect"
         THEN Returns("connect", None, ok)
         ELSE ReadDataReturns(t, FALSE, TRUE, FALSE, "none", FALSE, last_data)

\* connect(), lines 112-129: start the worker and wait for it
BeginConnect(op, t) ==
    \/ /\ FreeSlots # {}
       /\ workers' = [workers EXCEPT ![Slot] =
                        [IdleWorker EXCEPT !.kind = "connect", !.wpc = Pc("run", ""), !.joined = TRUE]]
       /\ pc' = "connect_join"
       /\ call' = [op |-> op, w |-> Slot, t |-> t]
       /\ UNCHANGED <<connected, lastOp, hist>>
    \/ /\ workers' = workers          \* Thread.start() raises RuntimeError
       /\ IF connect_except("RuntimeError")
            THEN ConnectReturns(op, t, FALSE)
            ELSE connected' = connected /\ Raises(op)

\* read_data(), lines 185-188: a sample replaces the cache, None leaves it
CachedOverwritten(data) == data
Cached(data) == IF data # None THEN data ELSE last_data

\* get_telemetry(), line 279 / 283, and what read_data does with it (185-188)
GetReturns(op, t, read, attach, whole, data) ==
    IF op = "get_telemetry"
      THEN /\ last_data' = last_data
           /\ Completes([Outcome("get_telemetry", data, TRUE, FALSE) EXCEPT
                           !.read = read, !.attach = attach, !.whole = whole])
           /\ UNCHANGED hist
      ELSE /\ last_data' = Cached(data)
           /\ ReadDataReturns(t, read, FALSE, attach,
                              IF data # None THEN "ok" ELSE "fail", whole, last_data')

\* get_telemetry(), lines 196-277
BeginGet(op, t) ==
    IF ~is_connected
      THEN workers' = workers /\ GetReturns(op, t, FALSE, FALSE, FALSE, None)
      ELSE \/ /\ FreeSlots # {}
              /\ workers' = [workers EXCEPT ![Slot] =
                               [IdleWorker EXCEPT !.kind = "read",
                                                  !.wpc = Pc("attach", "physics"),
                                                  !.joined = TRUE]]
              /\ pc' = "read_join"
              /\ call' = [op |-> op, w |-> Slot, t |-> t]
              /\ UNCHANGED <<last_data, lastOp, hist>>
           \/ /\ workers' = workers   \* Thread.start() raises RuntimeError
              /\ IF get_telemetry_except("RuntimeError")
                   THEN GetReturns(op, t, FALSE, FALSE, FALSE, None)
                   ELSE last_data' = last_data /\ Raises(op)

connect ==
    /\ Called
    /\ BeginConnect("connect", 0)
    /\ UNCHANGED <<asm, last_data, last_read_time, last_connect_attempt, objs,
                   now, present, shm, decoded>>

get_telemetry ==
    /\ Called
    /\ BeginGet("get_telemetry", 0)
    /\ UNCHANGED <<asm, connected, last_read_time, last_connect_attempt, objs,
                   now, present, shm, decoded>>

\* read_data(), line 171
rate_limited_in_seconds(current_time) ==
    current_time - last_read_time < MinUpdateInterval \div 1000
rate_limited(current_time) == current_time - last_read_time < MinUpdateInterval

\* a reconnect test without back-off
reconnect_due_at_once(current_time) == TRUE

\* read_data(), line 178
reconnect_due(current_time) == current_time - last_connect_attempt > ConnectBackoff

read_data ==
    /\ Called
    /\ LET current_time == now
       IN IF rate_limited(current_time)
            THEN /\ ReadDataReturns(current_time, FALSE, FALSE, FALSE, "none", FALSE,
                                    last_data)
                 /\ UNCHANGED <<last_read_time, last_connect_attempt, workers,
                                connected, last_data>>
            ELSE /\ last_read_time' = current_time
                 /\ IF ~is_connected
                      THEN IF reconnect_due(current_time)
                             THEN /\ last_connect_attempt' = current_time
                                  /\ BeginConnect("read_data", current_time)
                                  /\ last_data' = last_data
                             ELSE /\ ReadDataReturns(current_time, FALSE, FALSE, FALSE,
                                                     "none", FALSE, last_data)
                                  /\ UNCHANGED <<last_connect_attempt, workers,
                                                 connected, last_data>>
                      ELSE /\ BeginGet("read_data", current_time)
                           /\ UNCHANGED <<last_connect_attempt, connected>>
    /\ UNCHANGED <<asm, objs, now, present, shm, decoded>>

\* connect_thread.join(timeout=0.5) returns
ConnectJoinReturn ==
    /\ pc = "connect_join"
    /\ \/ /\ workers[call.w].wpc = Pc("done", "")
          /\ workers' = [workers EXCEPT ![call.w] = IdleWorker]
          /\ now' = now
          /\ ConnectReturns(call.op, call.t, TRUE)
       \/ /\ workers[call.w].wpc # Pc("done", "")
          /\ CanExpire(ConnectJoinTimeout)
          /\ workers' = [workers EXCEPT ![call.w].joined = FALSE]
          /\ now' = After(ConnectJoinTimeout)
          /\ ConnectReturns(call.op, call.t, FALSE)
    /\ UNCHANGED <<ncalls, asm, last_data, last_read_time, last_connect_attempt, objs,
                   present, shm, decoded>>

\* read_thread.join(timeout=0.1) returns
ReadJoinReturn ==
    /\ pc = "read_join"
    /\ \/ /\ workers[call.w].wpc = Pc("done", "")
          /\ workers' = [workers EXCEPT ![call.w] = IdleWorker]
          /\ now' = now
          /\ GetReturns(call.op, call.t, TRUE, workers[call.w].tried,
                        workers[call.w].whole, workers[call.w].result)
       \/ /\ workers[call.w].wpc # Pc("done", "")
          /\ CanExpire(ReadJoinTimeout)
          /\ workers' = [workers EXCEPT ![call.w].joined = FALSE]
          /\ now' = After(ReadJoinTimeout)
          /\ GetReturns(call.op, call.t, TRUE, workers[call.w].tried, FALSE, None)
    /\ UNCHANGED <<ncalls, asm, connected, last_read_time, last_connect_attempt, objs,
                   present, shm, decoded>>

disconnect ==
    /\ Called
    /\ objs' = IF asm # 0 THEN asm_close(objs, asm) ELSE objs
    /\ connected' = FALSE
    /\ Returns("disconnect", None, TRUE)
    /\ UNCHANGED <<asm, last_data, last_read_time, last_connect_attempt, workers,
                   now, present, shm, decoded>>

close ==
    /\ Called
    /\ IF asm = 0
         THEN /\ objs' = objs       \* None.close(): AttributeError
              /\ IF close_except("AttributeError")
                   THEN Returns("close", None, TRUE)
                   ELSE Raises("close")
         ELSE /\ objs' = asm_close(objs, asm)
              /\ Returns("close", None, TRUE)
    /\ UNCHANGED <<asm, connected, last_data, last_read_time, last_connect_attempt,
                   workers, now, present, shm, decoded>>

-----------------------------------------------------------------------------
(* Environment: the clock and the producer                                  *)

\* time passes between two public calls
Tick ==
    /\ pc = "idle"
    /\ \E t \in Instants : t > now /\ now' = t
    /\ UNCHANGED <<ncalls, asm, connected, last_data, last_read_time, last_connect_attempt,
                   objs, workers, pc, call, present, shm, lastOp, hist, decoded>>

LiveGraphics == [ZeroGraphics EXCEPT !.packed_id = 1, !.status = 2, !.current_time = 100]
BadGraphics == [ZeroGraphics EXCEPT !.status = 4]
BadStatic == [ZeroStatic EXCEPT !.sm_version = [i \in 1..StrLen |-> IF i = 1 THEN 255 ELSE NUL]]

\* What a segment may hold at the moment a worker decodes it: the producer
\* rewrites its segments at any time
Frames(seg) ==
    CASE seg = "physics" -> {[packed_id |-> 1, gear |-> <<3, 0, 0, 0>>]}
      [] seg = "graphics" -> {LiveGraphics, BadGraphics}
      [] seg = "static" -> {ZeroStatic, BadStatic}

\* the producer starts, stops, or has created only its first k segments
ProducerSet(k) ==
    /\ k # present
    /\ present' = k
    /\ UNCHANGED <<ncalls, asm, connected, last_data, last_read_time, last_connect_attempt,
                   objs, workers, pc, call, now, shm, lastOp, hist, decoded>>

-----------------------------------------------------------------------------
Init ==
    /\ asm = 0
    /\ connected = FALSE
    /\ last_data = None
    /\ last_read_time = 0
    /\ last_connect_attempt = 0
    /\ objs = [o \in ObjIds |-> NoHandles]
    /\ workers = [w \in WorkerIds |-> IdleWorker]
    /\ pc = "idle"
    /\ call = NoCall
    /\ now = StartTime
    /\ present = 0
    /\ shm = ZeroShm
    /\ lastOp = Outcome("init", None, TRUE, FALSE)
    /\ lastRet = None
    /\ touchAt = 0
    /\ ncalls = 0
    /\ decoded = None

Next ==
    \/ connect
    \/ disconnect
    \/ get_telemetry
    \/ read_data
    \/ close
    \/ ConnectJoinReturn
    \/ ReadJoinReturn
    \/ \E w \in WorkerIds : ConnectWorker(w)
    \/ \E w \in WorkerIds : \E i \in 1..3 : ReadWorkerAttach(w, Segments[i])
    \/ \E w \in WorkerIds : \E p \in Frames("physics") : \E g \in Frames("graphics") :
         \E s \in Frames("static") : ReadWorkerRead(w, p, g, s)
    \/ Tick
    \/ \E k \in 0..3 : ProducerSet(k)

Spec == Init /\ [][Next]_vars

\* The session while the producer is not running: no segment ever exists, so
\* every accSM() call fails and no decoder is reached
AbsentNext ==
    \/ connect
    \/ disconnect
    \/ get_telemetry
    \/ read_data
    \/ close
    \/ ConnectJoinReturn
    \/ ReadJoinReturn
    \/ \E w \in WorkerIds : ConnectWorker(w)
    \/ \E w \in WorkerIds : ReadWorkerAttach(w, "physics")
    \/ Tick

AbsentSpec == Init /\ [][AbsentNext]_vars

-----------------------------------------------------------------------------
(* The decoders on their own: the producer fills the segments cell by cell  *)
(* (an int32 field, or one byte of a string field), then one segment is     *)
(* decoded.                                                                 *)

SegmentNames == {Segments[i] : i \in 1..3}

\* int32 fields held byte by byte, and the length in bytes of a field
WordFields(seg) == IF seg = "physics" THEN {"gear"} ELSE {}

ByteFields(seg) == StringFields(seg) \cup WordFields(seg)

FieldLen(f) == IF f = "gear" THEN Len(ZeroWord) ELSE StrLen

IntFields(seg) == DOMAIN ZeroShm[seg] \ ByteFields(seg)

\* raw int32 values and bytes the producer may leave in a cell
RawInts == {-1, 1, 6, 9, 23}
RawBytes == {3, 65, 169, 195}

\* the cells that differ from the all-zero buffer
Written ==
    {c \in UNION {{<<seg, f, 0>> : f \in IntFields(seg)} : seg \in SegmentNames} :
        shm[c[1]][c[2]] # 0}
    \cup
    {c \in UNION {UNION {{<<seg, f, i>> : i \in 1..FieldLen(f)} : f \in ByteFields(seg)} :
                  seg \in SegmentNames} :
        shm[c[1]][c[2]][c[3]] # NUL}

sessionState == <<asm, connected, last_data, last_read_time, last_connect_attempt, objs,
                  workers, pc, call, now, present, lastOp, hist, ncalls>>

ProducerWrite(seg, f, v) ==
    /\ decoded = None
    /\ Cardinality(Written \cup {<<seg, f, 0>>}) <= MaxPokes
    /\ shm' = [shm EXCEPT ![seg][f] = v]
    /\ UNCHANGED <<sessionState, decoded>>

ProducerWriteByte(seg, f, i, b) ==
    /\ decoded = None
    /\ Cardinality(Written \cup {<<seg, f, i>>}) <= MaxPokes
    /\ shm' = [shm EXCEPT ![seg][f][i] = b]
    /\ UNCHANGED <<sessionState, decoded>>

\* read_physic_map / read_graphics_map / read_static_map on the segment
Decode(seg) ==
    /\ decoded = None
    /\ decoded' = [seg |-> seg, raw |-> shm[seg], res |-> read_map(seg, shm[seg])]
    /\ UNCHANGED <<sessionState, shm>>

DecodeNext ==
    \/ \E seg \in SegmentNames : \E f \in IntFields(seg) : \E v \in RawInts :
         ProducerWrite(seg, f, v)
    \/ \E seg \in SegmentNames : \E f \in ByteFields(seg) : \E i \in 1..FieldLen(f) :
         \E b \in RawBytes : ProducerWriteByte(seg, f, i, b)
    \/ \E seg \in SegmentNames : Decode(seg)

DecodeSpec == Init /\ [][DecodeNext]_vars

-----------------------------------------------------------------------------
(* The decoders field by field.  read_*_map takes no copy of the segment:   *)
(* each field is a seek and a read on the mapping itself (unpack_value,     *)
(* unpack_string), and the producer may rewrite the segment between two of  *)
(* them.  Here decoded holds the segment being decoded, the index of the    *)
(* next field and the values read so far.                                   *)

\* the fields of a segment in the order the decoder reads them
FieldOrder(seg) ==
    CASE seg = "physics" -> <<"packed_id", "gear">>
      [] seg = "graphics" -> <<"packed_id", "status", "session_type", "current_time_str",
                               "current_time", "tyre_compound", "flag", "penalty",
                               "track_grip_status", "rain_intensity",
                               "rain_intensity_in_10min", "rain_intensity_in_30min">>
      [] seg = "static" -> <<"sm_version", "car_model", "max_rpm">>

\* what the producer may have written into a segment
Contents(seg) == Frames(seg) \cup {ZeroShm[seg]}

\* the producer replaces the contents of a segment
ProducerRewrites(seg, c) ==
    /\ shm[seg] # c
    /\ shm' = [shm EXCEPT ![seg] = c]
    /\ UNCHANGED <<sessionState, decoded>>

\* the decoder of a segment is entered
StreamBegin(seg) ==
    /\ decoded = None
    /\ decoded' = [seg |-> seg, next |-> 1, ok |-> TRUE,
                   val |-> [f \in DOMAIN ZeroShm[seg] |-> None]]
    /\ UNCHANGED <<sessionState, shm>>

\* the statement of the decoder that reads its next field, on the mapping as
\* it stands now
StreamField ==
    /\ decoded # None
    /\ decoded.ok
    /\ decoded.next <= Len(FieldOrder(decoded.seg))
    /\ LET seg == decoded.seg
           f == FieldOrder(seg)[decoded.next]
           r == read_map(seg, [ZeroShm[seg] EXCEPT ![f] = shm[seg][f]])
       IN decoded' = IF r.ok
                       THEN [decoded EXCEPT !.next = @ + 1, !.val[f] = r.val[f]]
                       ELSE [decoded EXCEPT !.ok = FALSE]
    /\ UNCHANGED <<sessionState, shm>>

StreamNext ==
    \/ \E seg \in SegmentNames : \E c \in Contents(seg) : ProducerRewrites(seg, c)
    \/ \E seg \in SegmentNames : StreamBegin(seg)
    \/ StreamField

StreamSpec == Init /\ [][StreamNext]_vars

-----------------------------------------------------------------------------
(* A polling client that keeps the samples read_data() hands out: it calls  *)
(* connect() and read_data(), and may assign to a field of the sample it    *)
(* holds.  read_data() returns self._last_data itself, so the sample in the *)
(* cache, the one last returned and the one the client holds are one object.*)

\* a field assignment on a TelemetryData: the class is a plain @dataclass
TelemetryData_setattr(d, f, v) == [d EXCEPT ![f] = v]

HolderWrites(f, v) ==
    /\ pc = "idle"
    /\ last_data # None
    /\ last_data[f] # v
    /\ last_data' = TelemetryData_setattr(last_data, f, v)
    /\ lastRet' = last_data'
    /\ lastOp' = IF lastOp.op = "read_data" /\ lastOp.ret # None
                   THEN [lastOp EXCEPT !.ret = last_data']
                   ELSE lastOp
    /\ UNCHANGED <<ncalls, asm, connected, last_read_time, last_connect_attempt, objs,
                   workers, pc, call, now, present, shm, touchAt, decoded>>

HolderNext ==
    \/ connect
    \/ read_data
    \/ ConnectJoinReturn
    \/ ReadJoinReturn
    \/ \E w \in WorkerIds : ConnectWorker(w)
    \/ \E w \in WorkerIds : \E i \in 1..3 : ReadWorkerAttach(w, Segments[i])
    \/ \E w \in WorkerIds : \E p \in Frames("physics") : \E g \in Frames("graphics") :
         \E s \in Frames("static") : ReadWorkerRead(w, p, g, s)
    \/ Tick
    \/ ProducerSet(3)
    \/ HolderWrites("gear", 0)

HolderSpec == Init /\ [][HolderNext]_vars

-----------------------------------------------------------------------------
(* A polling client while the scheduler is kind: the client calls           *)
(* read_data() again and again, each call at least the rate-limit interval  *)
(* after the last read, and may close() in between; Thread.start() works    *)
(* and every worker gets the processor and ends before its join times out.  *)
(* The producer starts and stops and rewrites its graphics segment, which   *)
(* the reader decodes as it stands.                                         *)

\* the producer writes a frame into its graphics segment
ProducerPublish(g) ==
    /\ shm.graphics # g
    /\ shm' = [shm EXCEPT !.graphics = g]
    /\ UNCHANGED <<sessionState, decoded>>

\* read_data() at least the rate-limit interval after the last read; it
\* returns at once only where the code returns without starting a thread
PolledRead ==
    /\ now - last_read_time >= MinUpdateInterval
    /\ read_data
    /\ pc' = "idle" => (~lastOp'.conn /\ (~is_connected \/ last_read_time' = last_read_time))

\* a close() that is not the last call of the client
ClientClose == ncalls < MaxCalls - 1 /\ close

\* the joins return because the worker has ended
ConnectJoined ==
    /\ pc = "connect_join"
    /\ workers[call.w].wpc = Pc("done", "")
    /\ ConnectJoinReturn

ReadJoined ==
    /\ pc = "read_join"
    /\ workers[call.w].wpc = Pc("done", "")
    /\ ReadJoinReturn

ReaderDecodes(w) == ReadWorkerRead(w, shm.physics, shm.graphics, shm.static)

\* a started thread takes a step, or the join on an ended thread returns
ThreadStep ==
    \/ ConnectJoined
    \/ ReadJoined
    \/ \E w \in WorkerIds : ConnectWorker(w)
    \/ \E w \in WorkerIds : \E i \in 1..3 : ReadWorkerAttach(w, Segments[i])
    \/ \E w \in WorkerIds : ReaderDecodes(w)

FairNext ==
    \/ PolledRead
    \/ ClientClose
    \/ ThreadStep
    \/ Tick
    \/ ProducerSet(0)
    \/ ProducerSet(3)
    \/ \E g \in Frames("graphics") : ProducerPublish(g)

\* time passes, started threads run and are joined, and the client polls
Fairness == WF_vars(Tick) /\ WF_vars(PolledRead) /\ WF_vars(ThreadStep)

FairSpec == Init /\ [][FairNext]_vars /\ Fairness

-----------------------------------------------------------------------------
(* Properties of the session                                                *)

\* the step starts a public call of the named method
CallStarts(op) ==
    /\ pc = "idle"
    /\ ncalls' = ncalls + 1
    /\ IF pc' = "idle" THEN lastOp'.op = op ELSE call'.op = op

\* the step is the return of a public call of the named method
CallEnds(op) ==
    /\ pc' = "idle"
    /\ lastOp'.op = op
    /\ (pc # "idle" \/ ncalls' # ncalls)

\* the call returns self._last_data at once: no read, no connect
ServedFromCache ==
    /\ pc' = "idle"
    /\ ~lastOp'.read
    /\ ~lastOp'.conn
    /\ lastOp'.ret = last_data
    /\ UNCHANGED <<asm, objs, workers, connected, last_data>>

IsTelemetryData(d) == DOMAIN d = {"timestamp", "gear", "lap_time"}

NoHandleOpen == \A o \in ObjIds : objs[o] = NoHandles

\* C1: a read_data() call whose fresh read fails (get_telemetry() gave None)
\* returns the very value the previous read_data() call returned and does not
\* raise; so after a successful cycle every failing cycle returns that
\* cycle's sample, never None, whether or not close() was called meanwhile.
C1_CacheProperty ==
    [][(CallEnds("read_data") /\ lastOp'.fresh = "fail")
         => (lastOp'.ret = lastRet /\ ~lastOp'.raised)]_vars

\* a failing cycle has returned the sample cached by an earlier cycle
C1_Witness ==
    /\ lastOp.op = "read_data"
    /\ lastOp.fresh = "fail"
    /\ lastOp.ret # None
    /\ lastOp.ret = last_data

\* C2 as stated: a read_data() call made less than the minimum update interval
\* after the previous read_data() call returns the cached value without a
\* real read and without a connect attempt.
C2_AnyTwoCalls ==
    [][(CallStarts("read_data") /\ lastOp.op = "read_data"
          /\ now - lastOp.at < MinUpdateInterval)
         => ServedFromCache]_vars

\* C2 (amended): a read_data() call made less than the minimum update
\* interval after a read_data() call that started a real read or a connect
\* attempt returns the cached value without a real read and without a connect
\* attempt; so two calls less than the interval apart never both read.
C2_RateLimit ==
    [][(CallStarts("read_data") /\ touchAt > 0 /\ now - touchAt < MinUpdateInterval)
         => ServedFromCache]_vars

\* a call was served from the cache within the interval of a real read
C2_Witness ==
    /\ lastOp.op = "read_data"
    /\ ~lastOp.read /\ ~lastOp.conn
    /\ touchAt > 0
    /\ lastOp.at > touchAt
    /\ lastOp.at - touchAt < MinUpdateInterval
    /\ lastOp.ret # None

\* C3 (under AbsentSpec: all three segments absent throughout): connect()
\* does not raise, reports failure and leaves is_connected() False, and
\* every read_data() / get_telemetry() call returns None without raising.
C3_ScenarioA ==
    /\ ~lastOp.raised
    /\ ~is_connected
    /\ lastOp.op = "connect" => ~lastOp.ok
    /\ lastOp.op \in {"read_data", "get_telemetry"} => lastOp.ret = None

\* C4: connect(), read_data() and get_telemetry() (and the other public
\* calls) never raise, and read_data() / get_telemetry() return a complete
\* TelemetryData or None.
C4_NeverRaises ==
    /\ ~lastOp.raised
    /\ lastOp.op \in {"read_data", "get_telemetry"}
         => (lastOp.ret = None \/ IsTelemetryData(lastOp.ret))

\* a connected session's read failed and the caller got None
C4_Witness ==
    /\ lastOp.op = "get_telemetry"
    /\ lastOp.read
    /\ lastOp.ret = None
    /\ is_connected

\* C5: close() never raises, and a close() that directly follows a completed
\* close() leaves the session state unchanged.
C5_CloseIdempotent ==
    [][CallEnds("close")
         => (/\ ~lastOp'.raised
             /\ (lastOp.op = "close" /\ lastOp.quiet) => UNCHANGED sessionVars)]_vars

\* close() was called twice in a row on a session that had connected
C5_Witness ==
    /\ lastOp.op = "close"
    /\ lastOp.closes >= 2
    /\ asm # 0

\* C6: when close() has returned, no segment handle the session opened is
\* still open.
C6_CloseReleasesAll ==
    (lastOp.op = "close" /\ lastOp.quiet) => NoHandleOpen

\* C7: once the latest read_data() read failed after an attach attempt, the
\* next read_data() that attempts an attach comes a backoff window later.
C7_ReconnectCadence ==
    [][(CallEnds("read_data") /\ lastOp'.attach
          /\ lastOp.op = "read_data" /\ lastOp.fresh = "fail" /\ lastOp.attach)
         => lastOp'.at - lastOp.at >= ConnectBackoff]_vars

\* C8: a sample is returned by get_telemetry() / read_data(), or replaces the
\* cache, only when it was built in one read that held all three segments
\* and decoded all three; any other cycle leaves the cache as it was.
C8_NoPartialSnapshot ==
    [][/\ (CallEnds("get_telemetry") /\ lastOp'.ret # None) => lastOp'.whole
       /\ (CallEnds("read_data") /\ lastOp'.fresh = "ok")
            => (lastOp'.whole /\ lastOp'.ret = last_data')
       /\ last_data' # last_data
            => (CallEnds("read_data") /\ lastOp'.fresh = "ok" /\ lastOp'.whole)]_vars

\* a read that held all three segments failed to decode one: the cached
\* sample was kept
C8_Witness ==
    /\ lastOp.op = "read_data"
    /\ lastOp.fresh = "fail"
    /\ lastOp.read /\ ~lastOp.attach
    /\ last_data # None
    /\ asm # 0
    /\ objs[asm] = AllHandles

-----------------------------------------------------------------------------
(* Properties of the decoders                                               *)

\* C9: decoding a buffer of the declared size never raises and gives a
\* fully populated record.
C9_DecodeTotal ==
    decoded # None
      => (decoded.res.ok /\ DOMAIN decoded.res.val = DOMAIN decoded.raw)

\* C10: an enum-backed field holding a defined code decodes to that variant;
\* holding any other int32 it decodes to an unknown-variant value carrying
\* the raw integer, and the rest of the segment is decoded all the same.
C10_EnumDecoding ==
    (decoded # None /\ decoded.seg = "graphics")
      => /\ decoded.res.ok
         /\ \A f \in EnumFields :
              LET raw == decoded.raw[f]
                  val == decoded.res.val[f]
              IN IF raw \in EnumCodes(f)
                   THEN val = [variant |-> raw]
                   ELSE /\ "raw" \in DOMAIN val
                        /\ val.raw = raw
                        /\ val.variant \notin EnumCodes(f)

\* a segment was decoded in which the producer wrote string fields only
TextOnly ==
    decoded # None /\ \A f \in IntFields(decoded.seg) : decoded.raw[f] = 0

\* the UTF-8 bytes of a text (code points below 2048)
RECURSIVE Utf8Encode(_)
Utf8Encode(cs) ==
    IF cs = <<>> THEN <<>>
    ELSE IF Head(cs) < 128 THEN <<Head(cs)>> \o Utf8Encode(Tail(cs))
    ELSE <<192 + (Head(cs) \div 64), 128 + (Head(cs) % 64)>> \o Utf8Encode(Tail(cs))

\* C11: the text unpack_string returns for a fixed-size string field is
\* exactly the bytes of the field before its first NUL, whatever follows the
\* terminator; a field without a NUL yields all of its bytes.
C11_FixedString ==
    TextOnly
      => \A f \in StringFields(decoded.seg) :
            /\ decoded.res.ok
            /\ Utf8Encode(decoded.res.val[f]) = UpToNul(decoded.raw[f])

\* C12: a string field holding bytes that are not valid UTF-8, before or
\* after its first NUL, does not abort the decode of its segment: every
\* string field of the segment still comes back as a text.
C12_InvalidTextNotFatal ==
    (TextOnly /\ \E f \in StringFields(decoded.seg) : ~Utf8Valid(decoded.raw[f]))
      => /\ decoded.res.ok
         /\ \A f \in StringFields(decoded.seg) : decoded.res.val[f] \in Seq(Nat)

\* the sample _read_telemetry assembles from the physics record just decoded
SampleOf(physics) == TelemetryData(now, physics, read_graphics_map(LiveGraphics).val)

\* v is the signed 32-bit integer whose little-endian two's-complement bytes are bs
IsLittleEndianInt32(v, bs) ==
    \A i \in 1..4 : (v \div (256 ^ (i - 1))) % 256 = bs[i]

\* C13: the gear of a sample is the little-endian signed 32-bit integer held
\* in the four bytes of the gear field (offset 16) of the physics segment the
\* cycle read; the bytes 03 00 00 00 give gear 3.
C13_GearIsInt32 ==
    (decoded # None /\ decoded.seg = "physics")
      => /\ decoded.res.ok
         /\ IsLittleEndianInt32(SampleOf(decoded.res.val).gear, decoded.raw.gear)
         /\ decoded.raw.gear = <<3, 0, 0, 0>> => SampleOf(decoded.res.val).gear = 3

C13_Witness ==
    /\ decoded # None /\ decoded.seg = "physics" /\ decoded.res.ok
    /\ \/ decoded.raw.gear = <<3, 0, 0, 0>> /\ SampleOf(decoded.res.val).gear = 3
       \/ decoded.raw.gear = <<65, 0, 0, 195>> /\ SampleOf(decoded.res.val).gear < 0

-----------------------------------------------------------------------------
(* Properties of the session: the cache, the sample, the context manager    *)

\* C14: close() clears the cached sample, so a read_data() that follows a
\* close() and gets no fresh sample returns None; apart from that the cache
\* changes only by being replaced with the sample of a successful read.
C14_CacheClearedByClose ==
    [][/\ CallEnds("close") => last_data' = None
       /\ (CallEnds("read_data") /\ lastOp.op = "close" /\ lastOp'.fresh # "ok")
            => lastOp'.ret = None
       /\ last_data' # last_data
            => \/ CallEnds("close")
               \/ CallEnds("read_data") /\ lastOp'.fresh = "ok" /\ last_data' = lastOp'.ret]_vars

\* the gear values a cycle can assemble from what the physics segment holds
AssembledGears == {read_physic_map(p).val.gear : p \in Frames("physics")}

\* C15: a sample is immutable once assembled: whatever a holder of a
\* returned sample does to it, the cached sample, and so every later cached
\* return of read_data(), keeps the values the cycle assembled.
C15_SampleImmutable ==
    /\ last_data # None => last_data.gear \in AssembledGears
    /\ (lastOp.op = "read_data" /\ lastOp.ret # None) => lastOp.ret.gear \in AssembledGears

\* C16: "with ACCTelemetry() as t: ..." leaves the block through __exit__,
\* i.e. close(); once the block is left, close() of the accSharedMemory object
\* of the session has been called exactly once.  Stated for the block whose
\* body makes no call on the session (test_context_manager): the closing
\* close() is the first call, and it calls accSharedMemory.close() once.
C16_ContextManager ==
    (lastOp.op = "close" /\ ncalls = 1) => lastOp.asm_closed = 1

-----------------------------------------------------------------------------
(* Properties of the session: threads                                       *)

\* worker w is alive: its thread was started and has not ended
Active(w) == workers[w].kind # "free" /\ workers[w].wpc # Pc("done", "")

\* worker w is inside read_shared_memory() of object o
ReadingOn(w, o) == Active(w) /\ workers[w].kind = "read" /\ workers[w].obj = o

\* C19: no read races a close: when close() or disconnect() releases the
\* handles of the accSharedMemory object, no read cycle is in progress on
\* that object (not even in a worker that outlived its join), and a cycle
\* never gets to decode a segment whose handle was released under it.
C19_NoReadRacesClose ==
    [][/\ ((CallEnds("close") \/ CallEnds("disconnect")) /\ asm # 0 /\ objs[asm] # NoHandles)
            => \A w \in WorkerIds : ~ReadingOn(w, asm)
       /\ \A w \in WorkerIds :
            (ReadingOn(w, workers[w].obj) /\ workers[w].wpc = Pc("read", "")
               /\ workers'[w].wpc # workers[w].wpc)
              => objs[workers[w].obj] = AllHandles]_vars

\* C20: a read cycle never interleaves with a connect attempt: a connect
\* worker and a read worker are never alive at the same time.
C20_NoReadDuringConnect ==
    \A w, v \in WorkerIds :
        ~(Active(w) /\ workers[w].kind = "connect" /\ Active(v) /\ workers[v].kind = "read")

-----------------------------------------------------------------------------
(* Properties of the session: recovery                                      *)

\* the three segments exist and each holds a frame its decoder accepts
Healthy == present = 3 /\ \A seg \in SegmentNames : read_map(seg, shm[seg]).ok

\* the client has a call left and the clock an instant at which a read_data()
\* is no longer rate limited
CanPoll ==
    /\ ncalls < MaxCalls
    /\ \E t \in Instants : t >= now /\ t - last_read_time >= MinUpdateInterval

\* the last read_data() failed its fresh read and served the cache
Degraded ==
    /\ pc = "idle"
    /\ lastOp.op = "read_data" /\ lastOp.fresh = "fail"
    /\ lastOp.ret = last_data

\* the last read_data() returned a sample captured during that very call
FreshSample ==
    /\ pc = "idle"
    /\ lastOp.op = "read_data" /\ lastOp.fresh = "ok"
    /\ lastOp.ret.timestamp = lastOp.at
    /\ last_data = lastOp.ret

\* C17: recovery from Degraded: while the session serves the cache because
\* reads fail, once the three segments are available and stay available,
\* read_data() calls spaced beyond the rate-limit interval eventually bring
\* the session back to Connected and return a sample captured after the
\* producer came back.
C17_Recovery ==
    (Degraded /\ CanPoll /\ Healthy) ~> ((FreshSample /\ is_connected) \/ ~Healthy)

\* a read that failed served a cached sample, and the next one was fresh
C17_Witness ==
    /\ FreshSample /\ is_connected
    /\ lastOp.prev = [op |-> "read_data", fresh |-> "fail"]
    /\ lastRet # None

\* a connected session was just closed by an explicit close()
JustClosed ==
    /\ pc = "idle"
    /\ lastOp.op = "close" /\ lastOp.asm_closed = 1
    /\ is_connected

\* C18: re-attach after close: after an explicit close() on a connected
\* session, with the producer running, a later read_data() attaches the
\* handles again and returns a sample captured after the close.
C18_ReattachAfterClose ==
    (JustClosed /\ CanPoll /\ Healthy) ~> ((FreshSample /\ lastOp.attach) \/ ~Healthy)

C18_Witness ==
    /\ FreshSample /\ lastOp.attach
    /\ lastOp.prev.op = "close"
    /\ objs[asm] = AllHandles

-----------------------------------------------------------------------------
(* Properties of the attach/decode engine                                   *)

\* the field-by-field decode of a segment has returned its record
StreamDone ==
    decoded # None /\ decoded.ok /\ decoded.next > Len(FieldOrder(decoded.seg))

\* C21: non-torn capture: all fields of one decoded record reflect one and
\* the same producer write state of the segment, even when the producer
\* rewrites the segment while the decode is in progress.
C21_NonTornCapture ==
    StreamDone
      => \E c \in Contents(decoded.seg) :
            /\ read_map(decoded.seg, c).ok
            /\ \A f \in DOMAIN decoded.val : decoded.val[f] = read_map(decoded.seg, c).val[f]

\* no public call is running and no worker thread is alive
Quiescent == pc = "idle" /\ \A w \in WorkerIds : ~Active(w)

\* C22: a failed attach leaves no partially-open resource: between
\* operations the session holds either all three segment handles or none.
C22_AttachAllOrNothing ==
    (Quiescent /\ asm # 0) => objs[asm] \in {NoHandles, AllHandles}

\* worker w runs the decoders of its read cycle in this step
Decodes(w) ==
    /\ ReadingOn(w, workers[w].obj)
    /\ workers[w].wpc = Pc("read", "")
    /\ workers'[w].wpc # workers[w].wpc

\* C23: producer vanishing is detected: a read cycle that runs while the
\* producer is gone and the segments are still attached gives no sample and
\* releases the held handles (Attached -> Unattached), so that the next
\* read has to attach again.
C23_ProducerVanishDetected ==
    [][\A w \in WorkerIds :
         (Decodes(w) /\ present = 0 /\ objs[workers[w].obj] = AllHandles)
           => /\ objs'[workers[w].obj] = NoHandles
              /\ workers'[w].result = None]_vars

\* the step is the return of a call whose reader thread has ended
ReaderJoined == pc = "read_join" /\ pc' = "idle" /\ workers[call.w].wpc = Pc("done", "")

\* that reader attached nothing, held all three segments and got no sample:
\* a decoder failed on what a segment holds
CorruptSegmentSeen ==
    /\ ReaderJoined
    /\ ~workers[call.w].tried
    /\ workers[call.w].result = None

\* that reader failed while attaching and no segment exists
ProducerNotRunningSeen ==
    /\ ReaderJoined
    /\ workers[call.w].tried
    /\ workers[call.w].result = None
    /\ present = 0

\* C24: the session tells a producer that is not running from a corrupt or
\* size-mismatched segment: the former is retried transparently (the call
\* returns quietly), the latter is surfaced to the caller as an error.
C24_CorruptDistinguished ==
    [][/\ ProducerNotRunningSeen => ~lastOp'.raised
       /\ CorruptSegmentSeen => lastOp'.raised]_vars

-----------------------------------------------------------------------------
(* The byte layout of the three decoders.  Every field of a segment is one  *)
(* call of unpack_value, unpack_array or unpack_string with a literal       *)
(* offset: a seek to the offset and a read of the size of the field.  The   *)
(* tables below list these calls statement by statement.                    *)

\* struct.calcsize of the two formats the decoders use
calcsize(fmt) == CASE fmt = "i" -> 4 [] fmt = "f" -> 4

\* accSM.unpack_value(offset, fmt): one value of the format
ValueRead(name, offset, fmt) ==
    [name |-> name, offset |-> offset, size |-> calcsize(fmt)]

\* accSM.unpack_array(offset, fmt, count): count values read one after another
ArrayRead(name, offset, fmt, count) ==
    [name |-> name, offset |-> offset, size |-> calcsize(fmt) * count]

\* a string field read as max_len two-byte characters
StringReadWide(name, offset, max_len) ==
    [name |-> name, offset |-> offset, size |-> 2 * max_len]

\* accSM.unpack_string(offset, max_len): max_len bytes
StringRead(name, offset, max_len) ==
    [name |-> name, offset |-> offset, size |-> max_len]

\* the cars of the car_coordinates loop of read_graphics_map
CarCount == 60

\* for i in range(60): the x, y and z coordinate of car i
CarCoordinateReads ==
    [k \in 1..(3 * CarCount) |->
        LET i == (k - 1) \div 3
            axis == (k - 1) % 3
        IN ValueRead(<<"car_coordinates_x", "car_coordinates_y",
                       "car_coordinates_z">>[axis + 1],
                     160 + axis * 4 + i * 12, "f")]

\* the reads of read_physic_map, in the order of its statements
PhysicsReads ==
    << ValueRead("packed_id", 0, "i"),
       ValueRead("gas", 4, "f"),
       ValueRead("brake", 8, "f"),
       ValueRead("fuel", 12, "f"),
       ValueRead("gear", 16, "i"),
       ValueRead("rpm", 20, "i"),
       ValueRead("steer_angle", 24, "f"),
       ValueRead("speed_kmh", 28, "f"),
       ValueRead("velocity_x", 32, "f"),
       ValueRead("velocity_y", 36, "f"),
       ValueRead("velocity_z", 40, "f"),
       ValueRead("g_force_x", 44, "f"),
       ValueRead("g_force_y", 48, "f"),
       ValueRead("g_force_z", 52, "f"),
       ValueRead("wheel_slip_fl", 56, "f"),
       ValueRead("wheel_slip_fr", 60, "f"),
       ValueRead("wheel_slip_rl", 64, "f"),
       ValueRead("wheel_slip_rr", 68, "f"),
       ValueRead("_", 72, "f"),
       ValueRead("_", 76, "f"),
       ValueRead("_", 80, "f"),
       ValueRead("_", 84, "f"),
       ValueRead("wheel_pressure_fl", 88, "f"),
       ValueRead("wheel_pressure_fr", 92, "f"),
       ValueRead("wheel_pressure_rl", 96, "f"),
       ValueRead("wheel_pressure_rr", 100, "f"),
       ValueRead("wheel_angular_speed_fl", 104, "f"),
       ValueRead("wheel_angular_speed_fr", 108, "f"),
       ValueRead("wheel_angular_speed_rl", 112, "f"),
       ValueRead("wheel_angular_speed_rr", 116, "f"),
       ValueRead("_", 120, "f"),
       ValueRead("_", 124, "f"),
       ValueRead("_", 128, "f"),
       ValueRead("_", 132, "f"),
       ValueRead("_", 136, "f"),
       ValueRead("_", 140, "f"),
       ValueRead("_", 144, "f"),
       ValueRead("_", 148, "f"),
       ValueRead("tyre_core_temp_fl", 152, "f"),
       ValueRead("tyre_core_temp_fr", 156, "f"),
       ValueRead("tyre_core_temp_rl", 160, "f"),
       ValueRead("tyre_core_temp_rr", 164, "f"),
       ValueRead("_", 168, "f"),
       ValueRead("_", 172, "f"),
       ValueRead("_", 176, "f"),
       ValueRead("_", 180, "f"),
       ValueRead("suspension_travel_fl", 184, "f"),
       ValueRead("suspension_travel_fr", 188, "f"),
       ValueRead("suspension_travel_rl", 192, "f"),
       ValueRead("suspension_travel_rr", 196, "f"),
       ValueRead("_", 200, "i"),
       ValueRead("tc", 204, "f"),
       ValueRead("heading", 208, "f"),
       ValueRead("pitch", 212, "f"),
       ValueRead("roll", 216, "f"),
       ValueRead("car_damage_front", 220, "f"),
       ValueRead("car_damage_rear", 224, "f"),
       ValueRead("car_damage_left", 228, "f"),
       ValueRead("car_damage_right", 232, "f"),
       ValueRead("car_damage_center", 236, "f"),
       ValueRead("pit_limiter_on", 240, "i"),
       ValueRead("abs_value", 244, "f"),
       ValueRead("autoshifter_on", 248, "i"),
       ValueRead("turbo_boost", 252, "f"),
       ValueRead("air_temp", 256, "f"),
       ValueRead("road_temp", 260, "f"),
       ValueRead("local_angular_vel_x", 264, "f"),
       ValueRead("local_angular_vel_y", 268, "f"),
       ValueRead("local_angular_vel_z", 272, "f"),
       ValueRead("final_ff", 276, "f"),
       ValueRead("_", 280, "f"),
       ValueRead("_", 284, "i"),
       ValueRead("_", 288, "i"),
       ValueRead("_", 292, "i"),
       ValueRead("_", 296, "i"),
       ValueRead("_", 300, "i"),
       ValueRead("_", 304, "f"),
       ValueRead("_", 308, "f"),
       ValueRead("_", 312, "f"),
       ValueRead("_", 316, "f"),
       ValueRead("_", 320, "f"),
       ValueRead("_", 324, "f"),
       ValueRead("brake_temp_fl", 328, "f"),
       ValueRead("brake_temp_fr", 332, "f"),
       ValueRead("brake_temp_rl", 336, "f"),
       ValueRead("brake_temp_rr", 340, "f"),
       ValueRead("clutch", 344, "f"),
       ValueRead("is_ai_controlled", 348, "i"),
       ValueRead("tyre_contact_point_fl_x", 352, "f"),
       ValueRead("tyre_contact_point_fl_y", 356, "f"),
       ValueRead("tyre_contact_point_fl_z", 360, "f"),
       ValueRead("tyre_contact_point_fr_x", 364, "f"),
       ValueRead("tyre_contact_point_fr_y", 368, "f"),
       ValueRead("tyre_contact_point_fr_z", 372, "f"),
       ValueRead("tyre_contact_point_rl_x", 376, "f"),
       ValueRead("tyre_contact_point_rl_y", 380, "f"),
       ValueRead("tyre_contact_point_rl_z", 384, "f"),
       ValueRead("tyre_contact_point_rr_x", 388, "f"),
       ValueRead("tyre_contact_point_rr_y", 392, "f"),
       ValueRead("tyre_contact_point_rr_z", 396, "f"),
       ValueRead("tyre_contact_normal_fl_x", 400, "f"),
       ValueRead("tyre_contact_normal_fl_y", 404, "f"),
       ValueRead("tyre_contact_normal_fl_z", 408, "f"),
       ValueRead("tyre_contact_normal_fr_x", 412, "f"),
       ValueRead("tyre_contact_normal_fr_y", 416, "f"),
       ValueRead("tyre_contact_normal_fr_z", 420, "f"),
       ValueRead("tyre_contact_normal_rl_x", 424, "f"),
       ValueRead("tyre_contact_normal_rl_y", 428, "f"),
       ValueRead("tyre_contact_normal_rl_z", 432, "f"),
       ValueRead("tyre_contact_normal_rr_x", 436, "f"),
       ValueRead("tyre_contact_normal_rr_y", 440, "f"),
       ValueRead("tyre_contact_normal_rr_z", 444, "f"),
       ValueRead("tyre_contact_heading_fl_x", 448, "f"),
       ValueRead("tyre_contact_heading_fl_y", 452, "f"),
       ValueRead("tyre_contact_heading_fl_z", 456, "f"),
       ValueRead("tyre_contact_heading_fr_x", 460, "f"),
       ValueRead("tyre_contact_heading_fr_y", 464, "f"),
       ValueRead("tyre_contact_heading_fr_z", 468, "f"),
       ValueRead("tyre_contact_heading_rl_x", 472, "f"),
       ValueRead("tyre_contact_heading_rl_y", 476, "f"),
       ValueRead("tyre_contact_heading_rl_z", 480, "f"),
       ValueRead("tyre_contact_heading_rr_x", 484, "f"),
       ValueRead("tyre_contact_heading_rr_y", 488, "f"),
       ValueRead("tyre_contact_heading_rr_z", 492, "f"),
       ValueRead("brake_bias", 496, "f"),
       ValueRead("local_velocity_x", 500, "f"),
       ValueRead("local_velocity_y", 504, "f"),
       ValueRead("local_velocity_z", 508, "f"),
       ValueRead("_", 512, "i"),
       ValueRead("_", 516, "i"),
       ValueRead("_", 520, "i"),
       ValueRead("_", 524, "f"),
       ValueRead("_", 528, "f"),
       ValueRead("_", 532, "f"),
       ValueRead("_", 536, "f"),
       ValueRead("_", 540, "f"),
       ValueRead("_", 544, "f"),
       ValueRead("_", 548, "f"),
       ValueRead("_", 552, "f"),
       ValueRead("_", 556, "f"),
       ValueRead("_", 560, "f"),
       ValueRead("_", 564, "f"),
       ValueRead("_", 568, "f"),
       ValueRead("slip_ratio_fl", 572, "f"),
       ValueRead("slip_ratio_fr", 576, "f"),
       ValueRead("slip_ratio_rl", 580, "f"),
       ValueRead("slip_ratio_rr", 584, "f"),
       ValueRead("slip_angle_fl", 588, "f"),
       ValueRead("slip_angle_fr", 592, "f"),
       ValueRead("slip_angle_rl", 596, "f"),
       ValueRead("slip_angle_rr", 600, "f"),
       ValueRead("_", 604, "i"),
       ValueRead("_", 608, "i"),
       ValueRead("suspension_damage_fl", 612, "f"),
       ValueRead("suspension_damage_fr", 616, "f"),
       ValueRead("suspension_damage_rl", 620, "f"),
       ValueRead("suspension_damage_rr", 624, "f"),
       ValueRead("_", 628, "f"),
       ValueRead("_", 632, "f"),
       ValueRead("_", 636, "f"),
       ValueRead("_", 640, "f"),
       ValueRead("water_temp", 644, "f"),
       ValueRead("brake_pressure_fl", 648, "f"),
       ValueRead("brake_pressure_fr", 652, "f"),
       ValueRead("brake_pressure_rl", 656, "f"),
       ValueRead("brake_pressure_rr", 660, "f"),
       ValueRead("front_brake_compound", 664, "i"),
       ValueRead("rear_brake_compound", 668, "i"),
       ValueRead("pad_life_fl", 672, "f"),
       ValueRead("pad_life_fr", 676, "f"),
       ValueRead("pad_life_rl", 680, "f"),
       ValueRead("pad_life_rr", 684, "f"),
       ValueRead("disc_life_fl", 688, "f"),
       ValueRead("disc_life_fr", 692, "f"),
       ValueRead("disc_life_rl", 696, "f"),
       ValueRead("disc_life_rr", 700, "f"),
       ValueRead("ignition_on", 704, "i"),
       ValueRead("starter_engine_on", 708, "i"),
       ValueRead("is_engine_running", 712, "i"),
       ValueRead("kerb_vibration", 716, "f"),
       ValueRead("slip_vibration", 720, "f"),
       ValueRead("g_vibration", 724, "f"),
       ValueRead("abs_vibration", 728, "f") >>

\* the reads of read_graphics_map, in the order of its statements
GraphicsReads ==
    << ValueRead("packed_id", 0, "i"),
       ValueRead("status_value", 4, "i"),
       ValueRead("session_type_value", 8, "i"),
       StringRead("current_time_str", 12, 15),
       StringRead("last_time_str", 27, 15),
       StringRead("best_time_str", 42, 15),
       StringRead("last_sector_time_str", 57, 15),
       ValueRead("completed_lap", 72, "i"),
       ValueRead("position", 76, "i"),
       ValueRead("current_time", 80, "i"),
       ValueRead("last_time", 84, "i"),
       ValueRead("best_time", 88, "i"),
       ValueRead("session_time_left", 92, "f"),
       ValueRead("distance_traveled", 96, "f"),
       ValueRead("is_in_pit", 100, "i"),
       ValueRead("current_sector_index", 104, "i"),
       ValueRead("last_sector_time", 108, "i"),
       ValueRead("number_of_laps", 112, "i"),
       StringRead("tyre_compound", 116, 33),
       ValueRead("normalized_car_position", 152, "f"),
       ValueRead("active_cars", 156, "i") >>
    \o CarCoordinateReads
    \o << ArrayRead("car_id", 880, "i", 60),
       ValueRead("player_car_id", 1120, "i"),
       ValueRead("penalty_time", 1124, "f"),
       ValueRead("flag_value", 1128, "i"),
       ValueRead("penalty_value", 1132, "i"),
       ValueRead("ideal_line_on", 1136, "i"),
       ValueRead("is_in_pit_lane", 1140, "i"),
       ValueRead("mandatory_pit_done", 1144, "i"),
       ValueRead("wind_speed", 1148, "f"),
       ValueRead("wind_direction", 1152, "f"),
       ValueRead("is_setup_menu_visible", 1156, "i"),
       ValueRead("main_display_index", 1160, "i"),
       ValueRead("secondary_display_index", 1164, "i"),
       ValueRead("tc_level", 1168, "i"),
       ValueRead("tc_cut_level", 1172, "i"),
       ValueRead("engine_map", 1176, "i"),
       ValueRead("abs_level", 1180, "i"),
       ValueRead("fuel_per_lap", 1184, "f"),
       ValueRead("rain_light", 1188, "i"),
       ValueRead("flashing_light", 1192, "i"),
       ValueRead("light_stage", 1196, "i"),
       ValueRead("exhaust_temp", 1200, "f"),
       ValueRead("wiper_stage", 1204, "i"),
       ValueRead("driver_stint_total_time_left", 1208, "i"),
       ValueRead("driver_stint_time_left", 1212, "i"),
       ValueRead("rain_tyres", 1216, "i"),
       ValueRead("session_index", 1220, "i"),
       ValueRead("used_fuel", 1224, "f"),
       StringRead("delta_lap_time_str", 1228, 15),
       ValueRead("delta_lap_time", 1244, "i"),
       StringRead("estimated_lap_time_str", 1248, 15),
       ValueRead("estimated_lap_time", 1264, "i"),
       ValueRead("is_delta_positive", 1268, "i"),
       ValueRead("is_valid_lap", 1272, "i"),
       ValueRead("fuel_estimated_laps", 1276, "f"),
       StringRead("track_status", 1280, 33),
       ValueRead("missing_mandatory_pits", 1316, "i"),
       ValueRead("clock", 1320, "f"),
       ValueRead("direction_light_left", 1324, "i"),
       ValueRead("direction_light_right", 1328, "i"),
       ValueRead("global_yellow", 1332, "i"),
       ValueRead("global_yellow_s1", 1336, "i"),
       ValueRead("global_yellow_s2", 1340, "i"),
       ValueRead("global_yellow_s3", 1344, "i"),
       ValueRead("global_white", 1348, "i"),
       ValueRead("global_green", 1352, "i"),
       ValueRead("global_chequered", 1356, "i"),
       ValueRead("global_red", 1360, "i"),
       ValueRead("mfd_tyre_set", 1364, "i"),
       ValueRead("mfd_fuel_to_add", 1368, "f"),
       ValueRead("mfd_tyre_pressure_fl", 1372, "f"),
       ValueRead("mfd_tyre_pressure_fr", 1376, "f"),
       ValueRead("mfd_tyre_pressure_rl", 1380, "f"),
       ValueRead("mfd_tyre_pressure_rr", 1384, "f"),
       ValueRead("track_grip_status_value", 1388, "i"),
       ValueRead("rain_intensity_value", 1392, "i"),
       ValueRead("rain_intensity_in_10min_value", 1396, "i"),
       ValueRead("rain_intensity_in_30min_value", 1400, "i"),
       ValueRead("current_tyre_set", 1404, "i"),
       ValueRead("strategy_tyre_set", 1408, "i"),
       ValueRead("gap_ahead", 1412, "i"),
       ValueRead("gap_behind", 1416, "i") >>

\* the reads of read_static_map, in the order of its statements
StaticReads ==
    << StringRead("sm_version", 0, 15),
       StringRead("ac_version", 15, 15),
       ValueRead("number_of_session", 30, "i"),
       ValueRead("num_cars", 34, "i"),
       StringRead("car_model", 38, 33),
       StringRead("track", 71, 33),
       StringRead("player_name", 104, 33),
       StringRead("player_surname", 137, 33),
       StringRead("player_nick", 170, 33),
       ValueRead("sector_count", 204, "i"),
       ValueRead("max_rpm", 208, "i"),
       ValueRead("max_fuel", 212, "f"),
       ValueRead("penalty_enabled", 216, "i"),
       ValueRead("aid_fuel_rate", 220, "f"),
       ValueRead("aid_tyre_rate", 224, "f"),
       ValueRead("aid_mechanical_damage", 228, "f"),
       ValueRead("aid_stability", 232, "f"),
       ValueRead("aid_auto_clutch", 236, "i"),
       ValueRead("pit_window_start", 240, "i"),
       ValueRead("pit_window_end", 244, "i"),
       ValueRead("is_online", 248, "i"),
       StringRead("dry_tyres_name", 252, 33),
       StringRead("wet_tyres_name", 285, 33) >>

Reads(seg) ==
    CASE seg = "physics" -> PhysicsReads
      [] seg = "graphics" -> GraphicsReads
      [] seg = "static" -> StaticReads

\* the size each segment is mapped with in read_shared_memory
DeclaredSize(seg) ==
    CASE seg = "physics" -> 732
      [] seg = "graphics" -> 1420
      [] seg = "static" -> 318

\* the bytes of the mapping of a segment
Mapped(seg) == 0 .. (DeclaredSize(seg) - 1)

\* the bytes [offset, offset + size) one call asks for
ReadRange(r) == r.offset .. (r.offset + r.size - 1)

(* One run of a decoder over its mapping, read by read.  decoded holds the  *)
(* segment, the index of the next read, the bytes read so far, the bytes    *)
(* read more than once, and whether a read asked for bytes past the end of  *)
(* the mapping (the read comes back short and struct.unpack raises).        *)

\* the decoder of a segment is entered
ScanBegin(seg) ==
    /\ decoded = None
    /\ decoded' = [seg |-> seg, next |-> 1, read |-> {}, twice |-> {}, short |-> FALSE]
    /\ UNCHANGED <<sessionState, shm>>

\* the next unpack_* call of the decoder
ScanRead ==
    /\ decoded # None
    /\ ~decoded.short
    /\ decoded.next <= Len(Reads(decoded.seg))
    /\ LET r == Reads(decoded.seg)[decoded.next]
           got == ReadRange(r) \cap Mapped(decoded.seg)
       IN decoded' = [decoded EXCEPT !.next = @ + 1,
                                     !.read = @ \cup got,
                                     !.twice = @ \cup (got \cap decoded.read),
                                     !.short = got # ReadRange(r)]
    /\ UNCHANGED <<sessionState, shm>>

\* the decoder returns its map, or the short read raises out of it
ScanEnd ==
    /\ decoded # None
    /\ decoded.short \/ decoded.next > Len(Reads(decoded.seg))
    /\ decoded' = None
    /\ UNCHANGED <<sessionState, shm>>

LayoutNext ==
    \/ \E seg \in SegmentNames : ScanBegin(seg)
    \/ ScanRead
    \/ ScanEnd

LayoutSpec == Init /\ [][LayoutNext]_vars

-----------------------------------------------------------------------------
(* Properties of the byte layout (LayoutSpec)                               *)

\* a decoder has made all its reads
ScanDone ==
    /\ decoded # None
    /\ ~decoded.short
    /\ decoded.next > Len(Reads(decoded.seg))

\* C25: in each of the three schemas the byte ranges [offset, offset + size)
\* the decoder reads are pairwise non-overlapping and all lie inside the
\* declared size of the segment: no byte is read twice in one decode and no
\* read asks for bytes past the end of the mapping.
C25_RangesDisjointInside ==
    decoded # None => (decoded.twice = {} /\ ~decoded.short)

\* the graphics decoder has made all its reads, strings and arrays included
C25_Witness ==
    /\ ScanDone
    /\ decoded.seg = "graphics"
    /\ decoded.next = Len(GraphicsReads) + 1
    /\ decoded.read # {}

\* C26: schema completeness: when a decoder has made all its reads, every
\* byte of the segment has been read by one of them (the fields the code
\* marks as unused are read like the others).
C26_SchemaComplete ==
    ScanDone => decoded.read = Mapped(decoded.seg)

-----------------------------------------------------------------------------
(* The four-wheel fields.  A quad is four consecutive floats of a segment;  *)
(* the decoder reads each into a local (..._fl, ..._fr, ..._rl, ..._rr),    *)
(* builds a Wheels from the four, and _read_telemetry copies the members of *)
(* five of the physics quads into the sample.  Here decoded holds the float *)
(* each word of the quads encodes (mem), the Wheels of the decoded maps     *)
(* (map) and the wheel fields of the sample (sample).                       *)

\* a Wheels built from the four values with the rear pair first
WheelsRearFirst(a, b, c, d) ==
    [front_left |-> c, front_right |-> d, rear_left |-> a, rear_right |-> b]

\* @dataclass Wheels, constructed with four positional arguments
Wheels(front_left, front_right, rear_left, rear_right) ==
    [front_left |-> front_left, front_right |-> front_right,
     rear_left |-> rear_left, rear_right |-> rear_right]

\* the offset of the read whose value a decoder assigns to the given local
OffsetOf(seg, name) ==
    LET k == CHOOSE k \in 1..Len(Reads(seg)) : Reads(seg)[k].name = name
    IN Reads(seg)[k].offset

\* the Wheels fields of the map a decoder returns
read_wheels(seg, mem) ==
    LET v(name) == mem[<<seg, OffsetOf(seg, name)>>]
    IN CASE seg = "physics" ->
            [wheel_slip |->
                Wheels(v("wheel_slip_fl"), v("wheel_slip_fr"), v("wheel_slip_rl"), v("wheel_slip_rr")),
             wheel_pressure |->
                Wheels(v("wheel_pressure_fl"), v("wheel_pressure_fr"), v("wheel_pressure_rl"), v("wheel_pressure_rr")),
             wheel_angular_speed |->
                Wheels(v("wheel_angular_speed_fl"), v("wheel_angular_speed_fr"), v("wheel_angular_speed_rl"), v("wheel_angular_speed_rr")),
             tyre_core_temp |->
                Wheels(v("tyre_core_temp_fl"), v("tyre_core_temp_fr"), v("tyre_core_temp_rl"), v("tyre_core_temp_rr")),
             suspension_travel |->
                Wheels(v("suspension_travel_fl"), v("suspension_travel_fr"), v("suspension_travel_rl"), v("suspension_travel_rr")),
             brake_temp |->
                Wheels(v("brake_temp_fl"), v("brake_temp_fr"), v("brake_temp_rl"), v("brake_temp_rr")),
             slip_ratio |->
                Wheels(v("slip_ratio_fl"), v("slip_ratio_fr"), v("slip_ratio_rl"), v("slip_ratio_rr")),
             slip_angle |->
                Wheels(v("slip_angle_fl"), v("slip_angle_fr"), v("slip_angle_rl"), v("slip_angle_rr")),
             suspension_damage |->
                Wheels(v("suspension_damage_fl"), v("suspension_damage_fr"), v("suspension_damage_rl"), v("suspension_damage_rr")),
             brake_pressure |->
                Wheels(v("brake_pressure_fl"), v("brake_pressure_fr"), v("brake_pressure_rl"), v("brake_pressure_rr")),
             pad_life |->
                Wheels(v("pad_life_fl"), v("pad_life_fr"), v("pad_life_rl"), v("pad_life_rr")),
             disc_life |->
                Wheels(v("disc_life_fl"), v("disc_life_fr"), v("disc_life_rl"), v("disc_life_rr"))]
         [] seg = "graphics" ->
            [mfd_tyre_pressure |->
                Wheels(v("mfd_tyre_pressure_fl"), v("mfd_tyre_pressure_fr"),
                       v("mfd_tyre_pressure_rl"), v("mfd_tyre_pressure_rr"))]

\* the wheel arguments of the TelemetryData(...) call of _read_telemetry
TelemetryDataWheels(physics) ==
    [tire_pressure_fl |-> physics.wheel_pressure.front_left,
     tire_pressure_fr |-> physics.wheel_pressure.front_right,
     tire_pressure_rl |-> physics.wheel_pressure.rear_left,
     tire_pressure_rr |-> physics.wheel_pressure.rear_right,
     tire_temp_fl |-> physics.tyre_core_temp.front_left,
     tire_temp_fr |-> physics.tyre_core_temp.front_right,
     tire_temp_rl |-> physics.tyre_core_temp.rear_left,
     tire_temp_rr |-> physics.tyre_core_temp.rear_right,
     brake_temp_fl |-> physics.brake_temp.front_left,
     brake_temp_fr |-> physics.brake_temp.front_right,
     brake_temp_rl |-> physics.brake_temp.rear_left,
     brake_temp_rr |-> physics.brake_temp.rear_right,
     suspension_travel_fl |-> physics.suspension_travel.front_left,
     suspension_travel_fr |-> physics.suspension_travel.front_right,
     suspension_travel_rl |-> physics.suspension_travel.rear_left,
     suspension_travel_rr |-> physics.suspension_travel.rear_right,
     wheel_slip_fl |-> physics.wheel_slip.front_left,
     wheel_slip_fr |-> physics.wheel_slip.front_right,
     wheel_slip_rl |-> physics.wheel_slip.rear_left,
     wheel_slip_rr |-> physics.wheel_slip.rear_right]

\* the segments that hold quads, and the offset of the first word of each
QuadSegments == {"physics", "graphics"}
QuadBase(seg) ==
    CASE seg = "physics" ->
            [wheel_slip |-> 56, wheel_pressure |-> 88, wheel_angular_speed |-> 104,
             tyre_core_temp |-> 152, suspension_travel |-> 184, brake_temp |-> 328,
             slip_ratio |-> 572, slip_angle |-> 588, suspension_damage |-> 612,
             brake_pressure |-> 648, pad_life |-> 672, disc_life |-> 688]
      [] seg = "graphics" -> [mfd_tyre_pressure |-> 1372]

\* the words of the quads
WheelWords ==
    UNION {{<<seg, QuadBase(seg)[q] + 4 * i>> : q \in DOMAIN QuadBase(seg), i \in 0..3} :
           seg \in QuadSegments}

\* floats the producer may write into a word (0 is the value at start)
WheelValues == {1, 2}

\* the producer creates the segments, zero-filled
ProducerStarts ==
    /\ decoded = None
    /\ decoded' = [mem |-> [c \in WheelWords |-> 0], map |-> None, sample |-> None]
    /\ UNCHANGED <<sessionState, shm>>

\* the producer writes one word of a quad
ProducerWritesWheel(c, v) ==
    /\ decoded # None
    /\ decoded.map = None
    /\ decoded.mem[c] # v
    /\ Cardinality({d \in WheelWords : decoded.mem[d] # 0} \cup {c}) <= MaxPokes
    /\ decoded' = [decoded EXCEPT !.mem[c] = v]
    /\ UNCHANGED <<sessionState, shm>>

\* read_physic_map and read_graphics_map, as far as the quads go
DecodeWheels ==
    /\ decoded # None
    /\ decoded.map = None
    /\ decoded' = [decoded EXCEPT
                     !.map = [seg \in QuadSegments |-> read_wheels(seg, decoded.mem)]]
    /\ UNCHANGED <<sessionState, shm>>

\* _read_telemetry builds the sample from the decoded physics map
AssembleSample ==
    /\ decoded # None
    /\ decoded.map # None
    /\ decoded.sample = None
    /\ decoded' = [decoded EXCEPT !.sample = TelemetryDataWheels(decoded.map.physics)]
    /\ UNCHANGED <<sessionState, shm>>

WheelNext ==
    \/ ProducerStarts
    \/ \E c \in WheelWords : \E v \in WheelValues : ProducerWritesWheel(c, v)
    \/ DecodeWheels
    \/ AssembleSample

WheelSpec == Init /\ [][WheelNext]_vars

-----------------------------------------------------------------------------
(* Properties of the four-wheel fields (WheelSpec)                          *)

\* the sample fields with a wheel suffix, each with the quad and the member
\* the claim pairs it with (tire pressure, tire temperature, brake
\* temperature, suspension travel, wheel slip)
SuffixedFields ==
    {<<"tire_pressure_fl", "wheel_pressure", "front_left">>,
     <<"tire_pressure_fr", "wheel_pressure", "front_right">>,
     <<"tire_pressure_rl", "wheel_pressure", "rear_left">>,
     <<"tire_pressure_rr", "wheel_pressure", "rear_right">>,
     <<"tire_temp_fl", "tyre_core_temp", "front_left">>,
     <<"tire_temp_fr", "tyre_core_temp", "front_right">>,
     <<"tire_temp_rl", "tyre_core_temp", "rear_left">>,
     <<"tire_temp_rr", "tyre_core_temp", "rear_right">>,
     <<"brake_temp_fl", "brake_temp", "front_left">>,
     <<"brake_temp_fr", "brake_temp", "front_right">>,
     <<"brake_temp_rl", "brake_temp", "rear_left">>,
     <<"brake_temp_rr", "brake_temp", "rear_right">>,
     <<"suspension_travel_fl", "suspension_travel", "front_left">>,
     <<"suspension_travel_fr", "suspension_travel", "front_right">>,
     <<"suspension_travel_rl", "suspension_travel", "rear_left">>,
     <<"suspension_travel_rr", "suspension_travel", "rear_right">>,
     <<"wheel_slip_fl", "wheel_slip", "front_left">>,
     <<"wheel_slip_fr", "wheel_slip", "front_right">>,
     <<"wheel_slip_rl", "wheel_slip", "rear_left">>,
     <<"wheel_slip_rr", "wheel_slip", "rear_right">>}

\* C27: the wheel order is fixed: for each quad at base b the values at b,
\* b + 4, b + 8 and b + 12 decode as front_left, front_right, rear_left and
\* rear_right, and every sample field with suffix _fl / _fr / _rl / _rr
\* equals the corresponding member of its quad.
C27_WheelOrder ==
    (decoded # None /\ decoded.sample # None)
      => /\ \A seg \in QuadSegments : \A q \in DOMAIN QuadBase(seg) :
              LET b == QuadBase(seg)[q]
                  wheels == decoded.map[seg][q]
              IN /\ wheels.front_left = decoded.mem[<<seg, b>>]
                 /\ wheels.front_right = decoded.mem[<<seg, b + 4>>]
                 /\ wheels.rear_left = decoded.mem[<<seg, b + 8>>]
                 /\ wheels.rear_right = decoded.mem[<<seg, b + 12>>]
         /\ \A t \in SuffixedFields :
              decoded.sample[t[1]] = decoded.map.physics[t[2]][t[3]]
         /\ DOMAIN decoded.map.physics = DOMAIN QuadBase("physics")

\* a sample assembled from a physics segment whose two front tyre pressures
\* are the only words written, with different values
C27_Witness ==
    /\ decoded # None
    /\ decoded.sample # None
    /\ decoded.mem[<<"physics", 88>>] = 1
    /\ decoded.mem[<<"physics", 92>>] = 2
    /\ decoded.sample.tire_pressure_fl = 1
    /\ decoded.sample.tire_pressure_fr = 2
    /\ decoded.sample.tire_pressure_rl = 0

-----------------------------------------------------------------------------
(* Properties of the unconnected session (Spec)                             *)

\* the step is the return of a connect(), called by the client or by
\* read_data(), whose worker finished inside the join
ConnectSucceeds ==
    /\ pc = "connect_join"
    /\ pc' = "idle"
    /\ workers[call.w].wpc = Pc("done", "")

ReadDataUnconnected ==
    /\ CallStarts("read_data")
    /\ now - last_read_time >= MinUpdateInterval
    /\ ~(connected /\ asm # 0)

\* the step is the return of the connect() a read_data() attempted
ReadDataConnectReturns ==
    /\ pc = "connect_join"
    /\ call.op = "read_data"
    /\ pc' = "idle"

\* C29: a read_data() that finds the session not connected never performs a
\* fresh read in that call: it attempts connect() only when more than 5 s
\* have passed since the last attempt, and whether or not that connect()
\* succeeds it returns the value cached before the call, which it leaves in
\* the cache; a read_data() starts a fresh read only when the session is
\* connected and at least one rate-limit interval after the last call that
\* passed the limit (the unconnected call included).
C29_NoReadWhenUnconnected ==
    [][/\ ReadDataUnconnected
            => /\ last_read_time' = now
               /\ last_data' = last_data
               /\ \A w \in WorkerIds : workers'[w].kind = "read" => workers[w] = workers'[w]
               /\ IF now - last_connect_attempt > ConnectBackoff
                    THEN /\ last_connect_attempt' = now
                         /\ \/ pc' = "connect_join"
                            \/ CallEnds("read_data") /\ lastOp'.conn /\ ~lastOp'.read
                                 /\ lastOp'.ret = last_data
                    ELSE /\ CallEnds("read_data")
                         /\ ~lastOp'.conn
                         /\ ~lastOp'.read
                         /\ lastOp'.ret = last_data
                         /\ UNCHANGED <<last_connect_attempt, workers, connected>>
       /\ (pc = "connect_join" /\ call.op = "read_data") => last_data' = last_data
       /\ ReadDataConnectReturns
            => /\ CallEnds("read_data")
               /\ lastOp'.conn
               /\ ~lastOp'.read
               /\ lastOp'.fresh = "none"
               /\ ~lastOp'.raised
               /\ lastOp'.ret = last_data
       /\ (CallStarts("read_data") /\ pc' = "read_join")
            => /\ connected /\ asm # 0
               /\ now - last_read_time >= MinUpdateInterval]_vars

\* read_data() found the session disconnected, reconnected with success and
\* still returned the sample cached before, without reading
C29_Witness ==
    /\ lastOp.op = "read_data"
    /\ lastOp.prev.op = "disconnect"
    /\ lastOp.conn
    /\ ~lastOp.read
    /\ connected
    /\ lastOp.ret # None
    /\ lastOp.ret = last_data
    /\ present = 3

-----------------------------------------------------------------------------
(* The end of get_telemetry() statement by statement.  Lines 277 and 279    *)
(* are two statements, read_thread.join(timeout=0.1) and return result[0],  *)
(* and the worker runs between them like anywhere else.  Spec takes the     *)
(* two as one step, which leaves out no value a call can return and no      *)
(* state of the session; here they are two steps, so that what a call       *)
(* returns can be told from whether its join timed out.                     *)

\* read_thread.join(timeout=0.1) returns because the worker has finished
ReadJoinFinished ==
    /\ pc = "read_join"
    /\ workers[call.w].wpc = Pc("done", "")
    /\ ReadJoinReturn

\* read_thread.join(timeout=0.1) returns because the 100 ms have passed
ReadJoinTimesOut ==
    /\ pc = "read_join"
    /\ workers[call.w].wpc # Pc("done", "")
    /\ CanExpire(ReadJoinTimeout)
    /\ now' = After(ReadJoinTimeout)
    /\ pc' = "read_return"
    /\ UNCHANGED <<ncalls, asm, connected, last_data, last_read_time, last_connect_attempt,
                   objs, workers, call, present, shm, lastOp, hist, decoded>>

\* return result[0] after a join that timed out: whatever the list holds now
ReadReturn ==
    /\ pc = "read_return"
    /\ LET worker == workers[call.w]
           finished == worker.wpc = Pc("done", "")
       IN /\ workers' = [workers EXCEPT ![call.w] =
                           IF finished THEN IdleWorker ELSE [@ EXCEPT !.joined = FALSE]]
          /\ GetReturns(call.op, call.t, TRUE, worker.tried,
                        finished /\ worker.whole,
                        IF finished THEN worker.result ELSE None)
    /\ UNCHANGED <<ncalls, asm, connected, last_read_time, last_connect_attempt, objs,
                   now, present, shm, decoded>>

LateNext ==
    \/ connect
    \/ get_telemetry
    \/ read_data
    \/ ConnectJoinReturn
    \/ ReadJoinFinished
    \/ ReadJoinTimesOut
    \/ ReadReturn
    \/ \E w \in WorkerIds : ConnectWorker(w)
    \/ \E w \in WorkerIds : \E i \in 1..3 : ReadWorkerAttach(w, Segments[i])
    \/ \E w \in WorkerIds : \E p \in Frames("physics") : \E g \in Frames("graphics") :
         \E s \in Frames("static") : ReadWorkerRead(w, p, g, s)
    \/ Tick
    \/ ProducerSet(3)

LateSpec == Init /\ [][LateNext]_vars

-----------------------------------------------------------------------------
(* Properties of the late worker (LateSpec)                                 *)

\* worker w, which no call waits for any more, takes a step of its read
LateWorkerStep(w) ==
    /\ workers[w].kind = "read"
    /\ ~workers[w].joined
    /\ workers'[w] # workers[w]

\* C30: the late read result is discarded.  If the reader worker has not
\* finished when the 100 ms join times out, that call returns None (to
\* read_data: it returns the cache and leaves it as it is), and the sample
\* the worker produces afterwards is never returned by a later call nor
\* stored in the cache: a call takes its value only from the worker it
\* started itself, and a worker nobody waits for leaves no result behind.
C30_LateResultDiscarded ==
    [][/\ (pc = "read_return" /\ pc' = "idle")
            => /\ last_data' = last_data
               /\ lastOp'.ret = IF call.op = "get_telemetry" THEN None ELSE last_data
       /\ \A w \in WorkerIds :
            LateWorkerStep(w)
              => /\ last_data' = last_data
                 /\ lastRet' = lastRet
                 /\ lastOp'.ret = lastOp.ret
                 /\ workers'[w].result = None
       /\ pc \in {"read_join", "read_return"} => workers[call.w].joined]_vars

====
